---- MODULE Spec2Model ----
(***************************************************************************)
(* A model of crates/vfio-ioctls/src/vfio_device.rs: the VFIO container,   *)
(* its reference-counted groups and the devices opened through them.       *)
(*                                                                         *)
(* Spec     the group lifecycle: any number of callers run                 *)
(*          VfioDevice::new and Drop for VfioDevice concurrently on one    *)
(*          container.  Every statement that touches shared state is one   *)
(*          step, so that Arc clones and drops made outside the `groups`   *)
(*          mutex interleave with the steps made inside it.                *)
(* SpecSeq  the same steps run by a single caller: an operation starts     *)
(*          only when no other operation is in progress.                   *)
(* SpecIrq  the interrupt operations of one constructed device, for every  *)
(*          interrupt map discovery can have built.                        *)
(* SpecRegion  region_read and region_write of one constructed device, for *)
(*          every small region list, buffer length and offset.  The u64    *)
(*          quantities are modelled U64Bits wide.                          *)
(* SpecIrqSet  enable_irq, disable_irq and unmask_irq of one device.       *)
(* SpecCaps  one get_region_map: the second query and the walk over the    *)
(*          capability chain of its reply.                                 *)
(* SpecGroupNew  one VfioGroup::new.                                       *)
(* SpecDma  vfio_map_guest_memory and vfio_unmap_guest_memory.             *)
(* SpecReleaseOk  Spec when every detach and unbind of put_group succeeds. *)
(* SpecDiscover  get_regions over the regions of a device, then reads and  *)
(*          writes of the regions it listed.                               *)
(* SpecDevice  every operation of one constructed device.                  *)
(*                                                                         *)
(* The kernel and the hypervisor device are the environment.  Each request *)
(* returns a status chosen by the environment; the kernel-side variables   *)
(* record the requests that succeeded (a group is `bound` from a           *)
(* successful VFIO_GROUP_SET_CONTAINER to the next successful              *)
(* VFIO_GROUP_UNSET_CONTAINER, and so on).                                 *)
(***************************************************************************)
EXTENDS Integers, FiniteSets, Sequences, TLC

\* Bounds of the model.
MaxGroupObjects == 2
MaxIommuRequests == 2
MaxIrqIndex == 3
MaxIrqCount == 2
MaxRegions == 1
MaxRegionSize == 1
MaxBufLen == 2
U64Bits == 2
MaxArgsz == 4
MaxAreas == 1
MaxVisits == 4
MaxMemRegions == 3
MaxMemRegionLen == 2
GroupStatusBits == 3

\* vfio_bindings: the only status flag VfioGroup::new accepts.
VFIO_GROUP_FLAGS_VIABLE == 1

\* The device paths opened on the container: A and B are devices of one
\* group, C is the device of another.
Devices == {"A", "B", "C"}

Objs == 1..MaxGroupObjects

\* The group a device path belongs to: the number its iommu_group link names.
group_id(d) == IF d \in {"A", "B"} THEN 7 ELSE 8

GroupIds == {group_id(d) : d \in Devices}

\* The status an ioctl returns: negative on failure.
IoctlStatus == {-1, 0}

\* The flags VFIO_GROUP_GET_STATUS may report (bit 0 viable, bit 1 container set).
GroupStatusFlags == 0..(2 ^ GroupStatusBits - 1)

VARIABLES
    pc,          \* pc[d]: where the caller working on device d stands
    group,       \* group[d]: the Arc<VfioGroup> device d (or its caller) holds, 0 if none
    dev_open,    \* dev_open[d]: the device file of d is open
    groups,      \* VfioContainer.groups: group id -> group object, 0 if absent
    lock,        \* holder of the `groups` mutex, "free" if none
    strong,      \* strong[o]: Arc::strong_count of group object o
    id,          \* id[o]: VfioGroup.id of object o, 0 while o is in no use
    bound,       \* group objects bound to the container (SET_CONTAINER succeeded)
    attached,    \* group objects added to the hypervisor device
    iommu_set,   \* a VFIO_SET_IOMMU request has succeeded
    iommu_reqs,  \* number of VFIO_SET_IOMMU requests issued
    kfail,       \* some kernel or hypervisor request has failed so far
    pre,         \* the kernel-side state and the map when get_group took the lock
    seen,        \* seen[d]: the strong count put_group read when d was last dropped
    fresh,       \* fresh[d]: the object the running VfioDevice::new of d created, or 0
    logged,      \* what the last put_group logged with error!, "none" if nothing
    irqs,        \* VfioDevice.irqs: interrupt index -> VfioIrq
    irq_call,    \* the last interrupt operation: its arguments, request and result
    installed,   \* kernel: installed[i], the eventfds of the vectors of index i
    regions,     \* VfioDevice.regions: the list of VfioRegion
    overflow_checks, \* the build panics on integer overflow (else it wraps)
    region_call, \* the last region operation: its arguments and the transfer made
    region_info, \* get_region_map: the vfio_region_info of the first query
    region_with_cap, \* get_region_map: the reply buffer of the second query
    next_cap_offset, \* get_region_map: offset of the next capability header
    caps,        \* get_region_map: region.caps, the capabilities decoded so far
    cap_pc,      \* get_region_map: where the call is
    cap_visits,  \* get_region_map: capability headers read so far
    cap_oob,     \* get_region_map: a read went outside the reply buffer
    group_new_call, \* one VfioGroup::new: what the system returned, and its result
    guest_mem,   \* the guest memory regions, in the order mem.iter() yields them
    translations, \* kernel: the DMA translations installed in the container
    dma,         \* the running or last vfio_(un)map_guest_memory call
    disc,        \* get_regions: where the loop is, and the indexes it skipped
    device_flags, \* VfioDevice.flags
    device_call, \* the last reset, get_irq_info or region accessor call
    device_reset \* kernel: a VFIO_DEVICE_RESET request has succeeded

life_vars == <<pc, group, dev_open, groups, lock, strong, id, bound, attached,
               iommu_set, iommu_reqs, kfail, pre, seen, fresh, logged>>

irq_vars == <<irqs, irq_call, installed>>

region_vars == <<regions, overflow_checks, region_call>>

cap_vars == <<region_info, region_with_cap, next_cap_offset, caps, cap_pc,
              cap_visits, cap_oob>>

group_new_vars == <<group_new_call>>

dma_vars == <<guest_mem, translations, dma>>

disc_vars == <<disc>>

ctl_vars == <<device_flags, device_call, device_reset>>

device_vars == <<irq_vars, region_vars, cap_vars, group_new_vars, dma_vars,
                 disc_vars, ctl_vars>>

\* What the operations on interrupts, on regions, on a capability chain and
\* a single VfioGroup::new leave alone.
not_irq_vars == <<life_vars, region_vars, cap_vars, group_new_vars, dma_vars,
    disc_vars, ctl_vars>>

not_region_vars == <<life_vars, irq_vars, cap_vars, group_new_vars, dma_vars,
    disc_vars, ctl_vars>>

not_cap_vars == <<life_vars, irq_vars, region_vars, group_new_vars, dma_vars,
    disc_vars, ctl_vars>>

not_group_new_vars == <<life_vars, irq_vars, region_vars, cap_vars, dma_vars,
    disc_vars, ctl_vars>>

not_dma_vars == <<life_vars, irq_vars, region_vars, cap_vars, group_new_vars,
                 disc_vars, ctl_vars>>

vars == <<life_vars, device_vars>>

kernel == <<bound, attached, iommu_set, iommu_reqs>>

NoPre == [bound |-> {}, attached |-> {}, iommu_set |-> FALSE, iommu_reqs |-> 0,
          groups |-> [g \in GroupIds |-> 0]]

Snapshot == [bound |-> bound, attached |-> attached, iommu_set |-> iommu_set,
             iommu_reqs |-> iommu_reqs, groups |-> groups]

\* The container after VfioContainer::new: no group, no caller at work.
InitLife ==
    /\ pc = [d \in Devices |-> "idle"]
    /\ group = [d \in Devices |-> 0]
    /\ dev_open = [d \in Devices |-> FALSE]
    /\ groups = [g \in GroupIds |-> 0]
    /\ lock = "free"
    /\ strong = [o \in Objs |-> 0]
    /\ id = [o \in Objs |-> 0]
    /\ bound = {}
    /\ attached = {}
    /\ iommu_set = FALSE
    /\ iommu_reqs = 0
    /\ kfail = FALSE
    /\ pre = NoPre
    /\ seen = [d \in Devices |-> 0]
    /\ fresh = [d \in Devices |-> 0]
    /\ logged = "none"

\* No interrupt operation has been called yet.
NoIrqCall == [op |-> "none", index |-> 0, vector |-> 0, fds |-> <<>>,
              request |-> <<>>, result |-> "none", value |-> 0,
              follows |-> -1]

\* No region operation has been called yet.
NoRegionCall == [op |-> "none", index |-> 0, len |-> 0, addr |-> 0,
                 transfer |-> <<>>, panic |-> FALSE]

\* No interrupt map is looked at.
IrqIdle == irqs = <<>> /\ irq_call = NoIrqCall /\ installed = <<>>

\* No region list is looked at.
RegionIdle ==
    /\ regions = <<>>
    /\ overflow_checks = FALSE
    /\ region_call = NoRegionCall

\* No get_region_map is running.
CapIdle ==
    /\ region_info = [argsz |-> 0, caps_flag |-> FALSE]
    /\ region_with_cap = [cap_offset |-> 0, cap_info |-> <<>>]
    /\ next_cap_offset = 0
    /\ caps = <<>>
    /\ cap_pc = "idle"
    /\ cap_visits = 0
    /\ cap_oob = FALSE

\* No single VfioGroup::new is looked at.
GroupNewIdle ==
    group_new_call = [id |-> 0, opened |-> FALSE, ret |-> 0, flags |-> 0,
                      result |-> "none"]

\* No guest memory is mapped or unmapped.
NoDma == [op |-> "none", i |-> 0, attempted |-> <<>>, result |-> "none",
          request |-> <<>>]

DmaIdle == guest_mem = <<>> /\ translations = {} /\ dma = NoDma

\* No get_regions is running.
NoDisc == [pc |-> "none", i |-> 0, skipped |-> {}]

DiscIdle == disc = NoDisc

\* No reset and no accessor has been called yet.
NoDeviceCall == [op |-> "none", index |-> 0, value |-> <<>>]

CtlIdle ==
    device_flags = {} /\ device_call = NoDeviceCall /\ device_reset = FALSE

\* The lifecycle specifications look at no device's interrupts and regions.
InitNoDevice ==
    /\ IrqIdle /\ RegionIdle /\ CapIdle /\ GroupNewIdle /\ DmaIdle /\ DiscIdle
    /\ CtlIdle

Init == InitLife /\ InitNoDevice

----------------------------------------------------------------------------
\* VfioContainer::get_group

\* Variant: get_group and put_group do not wait for the mutex.
LockNotTaken == TRUE

\* self.groups.lock(): the mutex is free.
LockAvailable == lock = "free"

\* Variant: the IOMMU is selected only while the container has none selected.
FirstGroupEver == ~iommu_set

\* hash.len() == 0: no group is in the map yet.
FirstGroup == \A g \in GroupIds : groups[g] = 0

\* group_status.flags != VFIO_GROUP_FLAGS_VIABLE fails the creation.
GroupViable(flags) == flags = VFIO_GROUP_FLAGS_VIABLE

\* The result of VfioGroup::new when the open of the group file succeeded or
\* not, VFIO_GROUP_GET_STATUS returned ret and reported flags.
VfioGroup_new_result(opened, ret, flags) ==
    IF ~opened THEN "OpenGroup"
    ELSE IF ret < 0 THEN "GetGroupStatus"
    ELSE IF ~GroupViable(flags) THEN "GroupViable"
    ELSE "Ok"

\* A group object is in no use: nothing holds it and the kernel has no
\* binding of it.  Its memory and its file number can be given out again.
Free(o) == strong[o] = 0 /\ o \notin bound /\ o \notin attached

\* Arc::new(VfioGroup { id, group }): the object a successful creation yields.
NewObj == CHOOSE o \in Objs : Free(o) /\ \A p \in Objs : Free(p) => o <= p

\* The id fields once the objects are counted as in st and bound as in bd: an
\* object in no use has none.
IdAfter(st, bd) ==
    [o \in Objs |-> IF st[o] = 0 /\ o \notin bd THEN 0 ELSE id[o]]

\* An error return of get_group after the group object was created: the only
\* Arc of the object goes away and the mutex guard is released.
get_group_err(d) ==
    /\ strong' = [strong EXCEPT ![group[d]] = 0]
    /\ id' = IdAfter(strong', bound')
    /\ group' = [group EXCEPT ![d] = 0]
    /\ lock' = "free"
    /\ pc' = [pc EXCEPT ![d] = "idle"]
    /\ kfail' = TRUE
    /\ pre' = NoPre

\* VfioDevice::new calls get_group: take the lock and look the id up.  An
\* existing entry is cloned and returned, the guard being released.
get_group(d) ==
    /\ pc[d] = "idle"
    /\ LockAvailable
    /\ seen' = [seen EXCEPT ![d] = 0]
    /\ IF groups[group_id(d)] # 0
         THEN /\ strong' = [strong EXCEPT ![groups[group_id(d)]] = @ + 1]
              /\ group' = [group EXCEPT ![d] = groups[group_id(d)]]
              /\ pc' = [pc EXCEPT ![d] = "get_device"]
              /\ UNCHANGED <<lock, pre>>
         ELSE /\ lock' = d
              /\ pre' = Snapshot
              /\ pc' = [pc EXCEPT ![d] = "group_new"]
              /\ UNCHANGED <<strong, group>>
    /\ UNCHANGED <<dev_open, groups, id, kernel, kfail, fresh, logged>>

\* Arc::new(VfioGroup::new(group_id)?): open the group file and check that
\* the group is viable.
VfioGroup_new(d) ==
    /\ pc[d] = "group_new"
    /\ \E opened \in BOOLEAN, ret \in IoctlStatus, flags \in GroupStatusFlags :
         IF VfioGroup_new_result(opened, ret, flags) = "Ok"
           THEN /\ \E o \in Objs : Free(o)
                /\ strong' = [strong EXCEPT ![NewObj] = 1]
                /\ id' = [id EXCEPT ![NewObj] = group_id(d)]
                /\ group' = [group EXCEPT ![d] = NewObj]
                /\ pc' = [pc EXCEPT ![d] = "set_container"]
                /\ UNCHANGED <<lock, kfail, pre>>
           ELSE /\ lock' = "free"
                /\ pc' = [pc EXCEPT ![d] = "idle"]
                /\ kfail' = TRUE
                /\ pre' = NoPre
                /\ UNCHANGED <<strong, id, group>>
    /\ UNCHANGED <<dev_open, groups, kernel, seen, fresh, logged>>

\* VFIO_GROUP_SET_CONTAINER: bind the new group object to the container.
set_container(d) ==
    /\ pc[d] = "set_container"
    /\ \E ret \in IoctlStatus :
         IF ret < 0
           THEN /\ UNCHANGED bound
                /\ get_group_err(d)
           ELSE /\ bound' = bound \cup {group[d]}
                /\ pc' = [pc EXCEPT ![d] = "set_iommu"]
                /\ UNCHANGED <<strong, id, group, lock, kfail, pre>>
    /\ UNCHANGED <<dev_open, groups, attached, iommu_set, iommu_reqs, seen,
                   fresh, logged>>

\* VFIO_GROUP_UNSET_CONTAINER on an error path of get_group: the status is
\* not looked at.
unset_container_ignored(d) ==
    \E ret \in IoctlStatus :
        bound' = IF ret < 0 THEN bound ELSE bound \ {group[d]}

\* Initialize the IOMMU backend after binding the first group object.
set_iommu(d) ==
    /\ pc[d] = "set_iommu"
    /\ IF FirstGroup
         THEN /\ iommu_reqs < MaxIommuRequests
              /\ iommu_reqs' = iommu_reqs + 1
              /\ \E ret \in IoctlStatus :
                   IF ret < 0
                     THEN /\ unset_container_ignored(d)
                          /\ get_group_err(d)
                          /\ UNCHANGED iommu_set
                     ELSE /\ iommu_set' = TRUE
                          /\ pc' = [pc EXCEPT ![d] = "add_group"]
                          /\ UNCHANGED <<bound, strong, id, group, lock, kfail,
                                         pre>>
         ELSE /\ pc' = [pc EXCEPT ![d] = "add_group"]
              /\ UNCHANGED <<iommu_reqs, iommu_set, bound, strong, id, group,
                             lock, kfail, pre>>
    /\ UNCHANGED <<dev_open, groups, attached, seen, fresh, logged>>

\* Variant: the result of the hypervisor driver's add is not looked at.
device_add_group_unchecked(d) ==
    /\ pc[d] = "add_group"
    /\ \E ok \in BOOLEAN :
         /\ attached' = IF ok THEN attached \cup {group[d]} ELSE attached
         /\ kfail' = (kfail \/ ~ok)
    /\ pc' = [pc EXCEPT ![d] = "insert"]
    /\ UNCHANGED <<bound, strong, id, group, lock, pre>>
    /\ UNCHANGED <<dev_open, groups, iommu_set, iommu_reqs, seen, fresh, logged>>

\* Add the new group object to the hypervisor driver.
device_add_group(d) ==
    /\ pc[d] = "add_group"
    /\ \E ok \in BOOLEAN :
         IF ok
           THEN /\ attached' = attached \cup {group[d]}
                /\ pc' = [pc EXCEPT ![d] = "insert"]
                /\ UNCHANGED <<bound, strong, id, group, lock, kfail, pre>>
           ELSE /\ unset_container_ignored(d)
                /\ get_group_err(d)
                /\ UNCHANGED attached
    /\ UNCHANGED <<dev_open, groups, iommu_set, iommu_reqs, seen, fresh, logged>>

\* hash.insert(group_id, group.clone()); Ok(group): an entry the insertion
\* replaces is dropped, and the guard is released.
insert(d) ==
    /\ pc[d] = "insert"
    /\ groups' = [groups EXCEPT ![group_id(d)] = group[d]]
    /\ strong' = [o \in Objs |->
                    IF o = group[d] THEN strong[o] + 1
                    ELSE IF o = groups[group_id(d)] THEN strong[o] - 1
                    ELSE strong[o]]
    /\ id' = IdAfter(strong', bound)
    /\ fresh' = [fresh EXCEPT ![d] = group[d]]
    /\ lock' = "free"
    /\ pre' = NoPre
    /\ pc' = [pc EXCEPT ![d] = "get_device"]
    /\ UNCHANGED <<group, dev_open, kernel, kfail, seen, logged>>

----------------------------------------------------------------------------
\* VfioDevice::new after get_group

\* group.get_device(sysfspath)?, get_regions()?, get_irqs()?: on an error the
\* local `group` handle is dropped and the error returned; the two discovery
\* calls always return Ok.
get_device(d) ==
    /\ pc[d] = "get_device"
    /\ \E ok \in BOOLEAN :
         IF ok
           THEN /\ dev_open' = [dev_open EXCEPT ![d] = TRUE]
                /\ pc' = [pc EXCEPT ![d] = "open"]
                /\ UNCHANGED <<strong, id, group, kfail>>
           ELSE /\ strong' = [strong EXCEPT ![group[d]] = @ - 1]
                /\ id' = IdAfter(strong', bound)
                /\ group' = [group EXCEPT ![d] = 0]
                /\ pc' = [pc EXCEPT ![d] = "idle"]
                /\ kfail' = TRUE
                /\ UNCHANGED dev_open
    /\ fresh' = [fresh EXCEPT ![d] = 0]
    /\ UNCHANGED <<groups, lock, kernel, pre, seen, logged>>

----------------------------------------------------------------------------
\* Drop for VfioDevice and VfioContainer::put_group

\* Variant: the entry is released one holder early.
LastUserCountPlusOne == 3 + 1

\* Arc::strong_count(&group) == 3
LastUserCount == 3

\* Variant: drop goes to put_group with the device file still open.
drop_device_file_kept(d) ==
    /\ pc[d] = "open"
    /\ pc' = [pc EXCEPT ![d] = "clone"]
    /\ UNCHANGED <<group, dev_open, groups, lock, strong, id, kernel, kfail,
                   pre, seen, fresh, logged>>

\* ManuallyDrop::drop(&mut self.device): the device file is closed.
drop_device(d) ==
    /\ pc[d] = "open"
    /\ dev_open' = [dev_open EXCEPT ![d] = FALSE]
    /\ pc' = [pc EXCEPT ![d] = "clone"]
    /\ UNCHANGED <<group, groups, lock, strong, id, kernel, kfail, pre, seen,
                   fresh, logged>>

\* self.group.clone(): the argument of put_group.
drop_clone(d) ==
    /\ pc[d] = "clone"
    /\ strong' = [strong EXCEPT ![group[d]] = @ + 1]
    /\ pc' = [pc EXCEPT ![d] = "put_group"]
    /\ UNCHANGED <<group, dev_open, groups, lock, id, kernel, kfail, pre, seen,
                   fresh, logged>>

\* put_group: self.groups.lock().
put_group(d) ==
    /\ pc[d] = "put_group"
    /\ LockAvailable
    /\ lock' = d
    /\ logged' = "none"
    /\ pc' = [pc EXCEPT ![d] = "count"]
    /\ UNCHANGED <<group, dev_open, groups, strong, id, kernel, kfail, pre,
                   seen, fresh>>

\* Variant: put_group releases the group whatever the count it reads.
put_group_count_unchecked(d) ==
    /\ pc[d] = "count"
    /\ seen' = [seen EXCEPT ![d] = strong[group[d]]]
    /\ pc' = [pc EXCEPT ![d] = "del_group"]
    /\ UNCHANGED lock
    /\ UNCHANGED <<group, dev_open, groups, strong, id, kernel, kfail, pre,
                   fresh, logged>>

\* if Arc::strong_count(&group) == 3: otherwise put_group returns.
put_group_count(d) ==
    /\ pc[d] = "count"
    /\ seen' = [seen EXCEPT ![d] = strong[group[d]]]
    /\ IF strong[group[d]] = LastUserCount
         THEN /\ pc' = [pc EXCEPT ![d] = "del_group"]
              /\ UNCHANGED lock
         ELSE /\ pc' = [pc EXCEPT ![d] = "drop_arg"]
              /\ lock' = "free"
    /\ UNCHANGED <<group, dev_open, groups, strong, id, kernel, kfail, pre,
                   fresh, logged>>

\* self.device_del_group(&group): on an error put_group logs it and returns.
device_del_group(d) ==
    /\ pc[d] = "del_group"
    /\ \E ok \in BOOLEAN :
         IF ok
           THEN /\ attached' = attached \ {group[d]}
                /\ pc' = [pc EXCEPT ![d] = "unset_container"]
                /\ UNCHANGED <<lock, kfail, logged>>
           ELSE /\ logged' = "Could not delete VFIO group"
                /\ pc' = [pc EXCEPT ![d] = "drop_arg"]
                /\ lock' = "free"
                /\ kfail' = TRUE
                /\ UNCHANGED attached
    /\ UNCHANGED <<group, dev_open, groups, strong, id, bound, iommu_set,
                   iommu_reqs, pre, seen, fresh>>

\* Variant: put_group logs a failed unbind and goes on to remove the entry.
unset_container_then_remove(d) ==
    /\ pc[d] = "unset_container"
    /\ \E ret \in IoctlStatus :
         IF ret < 0
           THEN /\ logged' = "Could not unbind VFIO group"
                /\ kfail' = TRUE
                /\ UNCHANGED bound
           ELSE /\ bound' = bound \ {group[d]}
                /\ UNCHANGED <<kfail, logged>>
    /\ pc' = [pc EXCEPT ![d] = "remove"]
    /\ UNCHANGED lock
    /\ UNCHANGED <<group, dev_open, groups, strong, id, attached, iommu_set,
                   iommu_reqs, pre, seen, fresh>>

\* VFIO_GROUP_UNSET_CONTAINER: on an error put_group logs it and returns.
unset_container(d) ==
    /\ pc[d] = "unset_container"
    /\ \E ret \in IoctlStatus :
         IF ret < 0
           THEN /\ logged' = "Could not unbind VFIO group"
                /\ pc' = [pc EXCEPT ![d] = "drop_arg"]
                /\ lock' = "free"
                /\ kfail' = TRUE
                /\ UNCHANGED bound
           ELSE /\ bound' = bound \ {group[d]}
                /\ pc' = [pc EXCEPT ![d] = "remove"]
                /\ UNCHANGED <<lock, kfail, logged>>
    /\ UNCHANGED <<group, dev_open, groups, strong, id, attached, iommu_set,
                   iommu_reqs, pre, seen, fresh>>

\* Variant: put_group returns without taking the entry out of the map.
remove_skipped(d) ==
    /\ pc[d] = "remove"
    /\ lock' = "free"
    /\ pc' = [pc EXCEPT ![d] = "drop_arg"]
    /\ UNCHANGED <<groups, strong, id>>
    /\ UNCHANGED <<group, dev_open, kernel, kfail, pre, seen, fresh, logged>>

\* hash.remove(&group.id()): the entry's Arc, if any, is dropped, and put_group
\* returns.
remove(d) ==
    /\ pc[d] = "remove"
    /\ groups' = [groups EXCEPT ![id[group[d]]] = 0]
    /\ strong' = IF groups[id[group[d]]] # 0
                   THEN [strong EXCEPT ![groups[id[group[d]]]] = @ - 1]
                   ELSE strong
    /\ id' = IdAfter(strong', bound)
    /\ lock' = "free"
    /\ pc' = [pc EXCEPT ![d] = "drop_arg"]
    /\ UNCHANGED <<group, dev_open, kernel, kfail, pre, seen, fresh, logged>>

\* The end of put_group: its argument, the clone, is dropped.
drop_arg(d) ==
    /\ pc[d] = "drop_arg"
    /\ strong' = [strong EXCEPT ![group[d]] = @ - 1]
    /\ id' = IdAfter(strong', bound)
    /\ pc' = [pc EXCEPT ![d] = "drop_group"]
    /\ UNCHANGED <<group, dev_open, groups, lock, kernel, kfail, pre, seen,
                   fresh, logged>>

\* The end of drop: the fields of the device go, its `group` handle among them.
drop_group(d) ==
    /\ pc[d] = "drop_group"
    /\ strong' = [strong EXCEPT ![group[d]] = @ - 1]
    /\ id' = IdAfter(strong', bound)
    /\ group' = [group EXCEPT ![d] = 0]
    /\ pc' = [pc EXCEPT ![d] = "idle"]
    /\ UNCHANGED <<dev_open, groups, lock, kernel, kfail, pre, seen, fresh,
                   logged>>

----------------------------------------------------------------------------
Step(d) ==
    \/ get_group(d) /\ UNCHANGED device_vars
    \/ VfioGroup_new(d) /\ UNCHANGED device_vars
    \/ set_container(d) /\ UNCHANGED device_vars
    \/ set_iommu(d) /\ UNCHANGED device_vars
    \/ device_add_group(d) /\ UNCHANGED device_vars
    \/ insert(d) /\ UNCHANGED device_vars
    \/ get_device(d) /\ UNCHANGED device_vars
    \/ drop_device(d) /\ UNCHANGED device_vars
    \/ drop_clone(d) /\ UNCHANGED device_vars
    \/ put_group(d) /\ UNCHANGED device_vars
    \/ put_group_count(d) /\ UNCHANGED device_vars
    \/ device_del_group(d) /\ UNCHANGED device_vars
    \/ unset_container(d) /\ UNCHANGED device_vars
    \/ remove(d) /\ UNCHANGED device_vars
    \/ drop_arg(d) /\ UNCHANGED device_vars
    \/ drop_group(d) /\ UNCHANGED device_vars

Next == \E d \in Devices : Step(d)

Spec == Init /\ [][Next]_vars

\* The same steps when the hypervisor device and the kernel serve every
\* detach and every unbind that put_group asks for: put_group logs nothing.
ReleaseOk == logged' = "none"

StepReleaseOk(d) ==
    \/ get_group(d) /\ ReleaseOk /\ UNCHANGED device_vars
    \/ VfioGroup_new(d) /\ ReleaseOk /\ UNCHANGED device_vars
    \/ set_container(d) /\ ReleaseOk /\ UNCHANGED device_vars
    \/ set_iommu(d) /\ ReleaseOk /\ UNCHANGED device_vars
    \/ device_add_group(d) /\ ReleaseOk /\ UNCHANGED device_vars
    \/ insert(d) /\ ReleaseOk /\ UNCHANGED device_vars
    \/ get_device(d) /\ ReleaseOk /\ UNCHANGED device_vars
    \/ drop_device(d) /\ ReleaseOk /\ UNCHANGED device_vars
    \/ drop_clone(d) /\ ReleaseOk /\ UNCHANGED device_vars
    \/ put_group(d) /\ ReleaseOk /\ UNCHANGED device_vars
    \/ put_group_count(d) /\ ReleaseOk /\ UNCHANGED device_vars
    \/ device_del_group(d) /\ ReleaseOk /\ UNCHANGED device_vars
    \/ unset_container(d) /\ ReleaseOk /\ UNCHANGED device_vars
    \/ remove(d) /\ ReleaseOk /\ UNCHANGED device_vars
    \/ drop_arg(d) /\ ReleaseOk /\ UNCHANGED device_vars
    \/ drop_group(d) /\ ReleaseOk /\ UNCHANGED device_vars

NextReleaseOk == \E d \in Devices : StepReleaseOk(d)

SpecReleaseOk == Init /\ [][NextReleaseOk]_vars

\* No operation on another device is in progress.
Alone(d) == \A e \in Devices \ {d} : pc[e] \in {"idle", "open"}

StepSeq(d) ==
    \/ Alone(d) /\ get_group(d) /\ UNCHANGED device_vars
    \/ Alone(d) /\ VfioGroup_new(d) /\ UNCHANGED device_vars
    \/ Alone(d) /\ set_container(d) /\ UNCHANGED device_vars
    \/ Alone(d) /\ set_iommu(d) /\ UNCHANGED device_vars
    \/ Alone(d) /\ device_add_group(d) /\ UNCHANGED device_vars
    \/ Alone(d) /\ insert(d) /\ UNCHANGED device_vars
    \/ Alone(d) /\ get_device(d) /\ UNCHANGED device_vars
    \/ Alone(d) /\ drop_device(d) /\ UNCHANGED device_vars
    \/ Alone(d) /\ drop_clone(d) /\ UNCHANGED device_vars
    \/ Alone(d) /\ put_group(d) /\ UNCHANGED device_vars
    \/ Alone(d) /\ put_group_count(d) /\ UNCHANGED device_vars
    \/ Alone(d) /\ device_del_group(d) /\ UNCHANGED device_vars
    \/ Alone(d) /\ unset_container(d) /\ UNCHANGED device_vars
    \/ Alone(d) /\ remove(d) /\ UNCHANGED device_vars
    \/ Alone(d) /\ drop_arg(d) /\ UNCHANGED device_vars
    \/ Alone(d) /\ drop_group(d) /\ UNCHANGED device_vars

NextSeq == \E d \in Devices : StepSeq(d)

SpecSeq == Init /\ [][NextSeq]_vars

-----------------------------------------------------------------------------
(* One call of VfioGroup::new, for every answer of the system.             *)

\* VfioGroup::new(id) returns.
VfioGroup_new_returns ==
    /\ group_new_call.result = "pending"
    /\ group_new_call' =
          [group_new_call EXCEPT
              !.result = VfioGroup_new_result(group_new_call.opened,
                                              group_new_call.ret,
                                              group_new_call.flags)]

InitGroupNew ==
    /\ InitLife
    /\ IrqIdle
    /\ RegionIdle
    /\ CapIdle
    /\ group_new_call \in [id : GroupIds, opened : BOOLEAN, ret : IoctlStatus,
                           flags : GroupStatusFlags, result : {"pending"}]
    /\ DmaIdle
    /\ DiscIdle
    /\ CtlIdle

NextGroupNew == VfioGroup_new_returns /\ UNCHANGED not_group_new_vars

SpecGroupNew == InitGroupNew /\ [][NextGroupNew]_vars

-----------------------------------------------------------------------------
(* VfioContainer: mapping and unmapping the guest memory for DMA.          *)

\* A guest memory region: its length, and whether get_host_address gives its
\* host address.  The i-th region of the memory starts at guest address i.
GuestRegions == [len : 1..MaxMemRegionLen, host_ok : BOOLEAN]

GuestMemories == UNION { [1..n -> GuestRegions] : n \in 0..MaxMemRegions }

\* The translation a successful map of the i-th region installs.
translation(i) == [iova |-> i, size |-> guest_mem[i].len]

\* vfio_dma_map: the result for the status the kernel returned.
vfio_dma_map(ret) == IF ret # 0 THEN "IommuDmaMap" ELSE "Ok"

\* Variant: the size the kernel wrote back is not looked at.
vfio_dma_unmap_status_only(size, ret, unmapped) ==
    IF ret # 0 THEN "IommuDmaUnmap" ELSE "Ok"

\* vfio_dma_unmap: the result for the status the kernel returned and the
\* size it wrote back into dma_unmap.size.
vfio_dma_unmap(size, ret, unmapped) ==
    IF ret # 0 \/ unmapped # size THEN "IommuDmaUnmap" ELSE "Ok"

\* What a call leaves behind after the region at position i.
DmaCall(op, i, attempted, result, request) ==
    [op |-> op, i |-> i, attempted |-> attempted, result |-> result,
     request |-> request]

\* vfio_map_guest_memory is called: mem.iter() starts at the first region.
vfio_map_guest_memory ==
    /\ dma.result # "running"
    /\ dma' = DmaCall("map", 1, <<>>, "running", <<>>)
    /\ UNCHANGED <<guest_mem, translations>>

\* Variant: a region that fails to map is skipped and the iteration goes on.
map_guest_region_skip_failed ==
    /\ dma.op = "map"
    /\ dma.result = "running"
    /\ IF dma.i > Len(guest_mem)
         THEN /\ dma' = [dma EXCEPT !.result = "Ok"]
              /\ UNCHANGED translations
         ELSE LET attempted == Append(dma.attempted, dma.i)
              IN  IF ~guest_mem[dma.i].host_ok
                    THEN /\ dma' = DmaCall("map", dma.i + 1, attempted,
                                           "running", <<>>)
                         /\ UNCHANGED translations
                    ELSE \E ret \in IoctlStatus :
                         /\ dma' = DmaCall("map", dma.i + 1, attempted,
                                           "running", <<>>)
                         /\ translations' =
                               IF ret = 0
                                 THEN translations \cup {translation(dma.i)}
                                 ELSE translations
    /\ UNCHANGED guest_mem

\* One turn of try_for_each in vfio_map_guest_memory: the host address of the
\* next region, then vfio_dma_map; the first error ends the call.
map_guest_region ==
    /\ dma.op = "map"
    /\ dma.result = "running"
    /\ IF dma.i > Len(guest_mem)
         THEN /\ dma' = [dma EXCEPT !.result = "Ok"]
              /\ UNCHANGED translations
         ELSE LET attempted == Append(dma.attempted, dma.i)
              IN  IF ~guest_mem[dma.i].host_ok
                    THEN /\ dma' = DmaCall("map", dma.i, attempted,
                                           "IommuDmaMap", <<>>)
                         /\ UNCHANGED translations
                    ELSE \E ret \in IoctlStatus :
                         IF vfio_dma_map(ret) = "Ok"
                           THEN /\ dma' = DmaCall("map", dma.i + 1, attempted,
                                                  "running", <<>>)
                                /\ translations' =
                                      translations \cup {translation(dma.i)}
                           ELSE /\ dma' = DmaCall("map", dma.i, attempted,
                                                  vfio_dma_map(ret), <<>>)
                                /\ UNCHANGED translations
    /\ UNCHANGED guest_mem

\* vfio_unmap_guest_memory is called.
vfio_unmap_guest_memory ==
    /\ dma.result # "running"
    /\ dma' = DmaCall("unmap", 1, <<>>, "running", <<>>)
    /\ UNCHANGED <<guest_mem, translations>>

\* One turn of try_for_each in vfio_unmap_guest_memory: vfio_dma_unmap of the
\* next region; the first error ends the call.  The kernel returns a status
\* and writes back the size it unmapped; a request it fully served removes
\* the translation, one it served in part may or may not have.
unmap_guest_region ==
    /\ dma.op = "unmap"
    /\ dma.result = "running"
    /\ IF dma.i > Len(guest_mem)
         THEN /\ dma' = [dma EXCEPT !.result = "Ok", !.request = <<>>]
              /\ UNCHANGED translations
         ELSE LET attempted == Append(dma.attempted, dma.i)
                  size == guest_mem[dma.i].len
              IN  \E ret \in IoctlStatus, unmapped \in 0..(size + 1) :
                    LET request == << [size |-> size, ret |-> ret,
                                       unmapped |-> unmapped] >>
                        result == vfio_dma_unmap(size, ret, unmapped)
                    IN  /\ dma' = IF result = "Ok"
                                    THEN DmaCall("unmap", dma.i + 1, attempted,
                                                 "running", request)
                                    ELSE DmaCall("unmap", dma.i, attempted,
                                                 result, request)
                        /\ \/ /\ ret = 0 /\ unmapped = size
                              /\ translations' =
                                    translations \ {translation(dma.i)}
                           \/ /\ ret = 0 /\ unmapped # size
                              /\ translations' \in
                                    {translations,
                                     translations \ {translation(dma.i)}}
                           \/ /\ ret # 0
                              /\ translations' = translations
    /\ UNCHANGED guest_mem

InitDma ==
    /\ InitLife
    /\ IrqIdle
    /\ RegionIdle
    /\ CapIdle
    /\ GroupNewIdle
    /\ DiscIdle
    /\ CtlIdle
    /\ guest_mem \in GuestMemories
    /\ translations = {}
    /\ dma = NoDma

NextDma ==
    \/ vfio_map_guest_memory /\ UNCHANGED not_dma_vars
    \/ map_guest_region /\ UNCHANGED not_dma_vars
    \/ vfio_unmap_guest_memory /\ UNCHANGED not_dma_vars
    \/ unmap_guest_region /\ UNCHANGED not_dma_vars

SpecDma == InitDma /\ [][NextDma]_vars

-----------------------------------------------------------------------------
(* Interrupt operations of a constructed device.                           *)

IrqIndexes == 0..MaxIrqIndex

\* VfioIrq, without the flags no operation reads.
VfioIrq(i, c) == [index |-> i, count |-> c]

\* Every map get_irqs can return: an index whose query failed is skipped,
\* an index whose query succeeded maps to the count the kernel reported.
get_irqs ==
    UNION { [S -> 0..MaxIrqCount] : S \in SUBSET IrqIndexes }

IrqMaps == { [i \in DOMAIN m |-> VfioIrq(i, m[i])] : m \in get_irqs }

\* The vfio_irq_set argument of a VFIO_DEVICE_SET_IRQS request, with the
\* eventfds written into its data.
vfio_irq_set(fl, i, st, ct, data) ==
    [flags |-> fl, index |-> i, start |-> st, count |-> ct, data |-> data]

\* What an interrupt operation leaves behind; follows is the index whose
\* enable_irq succeeded in the call just before this one, -1 if none did.
IrqCall(op, i, vector, fds, request, result, value) ==
    [op |-> op, index |-> i, vector |-> vector, fds |-> fds,
     request |-> request, result |-> result, value |-> value,
     follows |-> IF irq_call.op = "enable_irq" /\ irq_call.result = "Ok"
                   THEN irq_call.index ELSE -1]

\* The result of an operation whose request returned ret.
irq_result(ret) == IF ret < 0 THEN "VfioDeviceSetIrq" ELSE "Ok"

\* The effect of a VFIO_DEVICE_SET_IRQS request that succeeded on the
\* installed eventfds: an eventfd trigger request installs its data on the
\* vectors [start, start + count) (every request here has start = 0); a
\* DATA_NONE trigger request with count = 0 disables the index as a whole;
\* a loopback trigger and an unmask install nothing.
set_irqs(inst, req) ==
    IF req.flags = {"DATA_EVENTFD", "ACTION_TRIGGER"}
      THEN [inst EXCEPT ![req.index] =
                req.data \o SubSeq(@, req.count + 1, Len(@))]
    ELSE IF req.flags = {"DATA_NONE", "ACTION_TRIGGER"} /\ req.count = 0
      THEN [inst EXCEPT ![req.index] = <<>>]
    ELSE inst

\* The vector is refused only when it is greater than the count.
VectorRefused(irq, vector) == irq.count < vector

trigger_irq(irq_index, vector) ==
    /\ irqs' = irqs
    /\ IF irq_index \notin DOMAIN irqs
       THEN /\ irq_call' = IrqCall("trigger_irq", irq_index, vector, <<>>,
                                   <<>>, "VfioDeviceSetIrq", 0)
            /\ installed' = installed
       ELSE IF VectorRefused(irqs[irq_index], vector)
       THEN /\ irq_call' = IrqCall("trigger_irq", irq_index, vector, <<>>,
                                   <<>>, "VfioDeviceSetIrq", 0)
            /\ installed' = installed
       ELSE \E ret \in IoctlStatus :
            LET irq_set == vfio_irq_set({"DATA_NONE", "ACTION_TRIGGER"},
                                        irq_index, vector, 1, <<>>)
            IN  /\ irq_call' = IrqCall("trigger_irq", irq_index, vector, <<>>,
                                       <<irq_set>>, irq_result(ret), 0)
                /\ installed' = IF ret < 0 THEN installed
                                ELSE set_irqs(installed, irq_set)

\* Variant: only an index without vectors is refused.
EnableRefusedIfEmpty(irq, event_fds) == irq.count = 0

\* irq.count == 0 || (irq.count as usize) < event_fds.len()
EnableRefused(irq, event_fds) == irq.count = 0 \/ irq.count < Len(event_fds)

enable_irq(irq_index, event_fds) ==
    /\ irqs' = irqs
    /\ IF irq_index \notin DOMAIN irqs
       THEN /\ irq_call' = IrqCall("enable_irq", irq_index, 0, event_fds,
                                   <<>>, "VfioDeviceSetIrq", 0)
            /\ installed' = installed
       ELSE IF EnableRefused(irqs[irq_index], event_fds)
       THEN /\ irq_call' = IrqCall("enable_irq", irq_index, 0, event_fds,
                                   <<>>, "VfioDeviceSetIrq", 0)
            /\ installed' = installed
       ELSE \E ret \in IoctlStatus :
            LET irq_set == vfio_irq_set({"DATA_EVENTFD", "ACTION_TRIGGER"},
                                        irq_index, 0, Len(event_fds), event_fds)
            IN  /\ irq_call' = IrqCall("enable_irq", irq_index, 0, event_fds,
                                       <<irq_set>>, irq_result(ret), 0)
                /\ installed' = IF ret < 0 THEN installed
                                ELSE set_irqs(installed, irq_set)

\* Variant: the request of disable_irq names one vector (count = 1).
disable_irq_one_vector(irq_index) ==
    /\ irqs' = irqs
    /\ IF irq_index \notin DOMAIN irqs
       THEN /\ irq_call' = IrqCall("disable_irq", irq_index, 0, <<>>,
                                   <<>>, "VfioDeviceSetIrq", 0)
            /\ installed' = installed
       ELSE IF irqs[irq_index].count = 0
       THEN /\ irq_call' = IrqCall("disable_irq", irq_index, 0, <<>>,
                                   <<>>, "VfioDeviceSetIrq", 0)
            /\ installed' = installed
       ELSE \E ret \in IoctlStatus :
            LET irq_set == vfio_irq_set({"DATA_NONE", "ACTION_TRIGGER"},
                                        irq_index, 0, 1, <<>>)
            IN  /\ irq_call' = IrqCall("disable_irq", irq_index, 0, <<>>,
                                       <<irq_set>>, irq_result(ret), 0)
                /\ installed' = IF ret < 0 THEN installed
                                ELSE set_irqs(installed, irq_set)

disable_irq(irq_index) ==
    /\ irqs' = irqs
    /\ IF irq_index \notin DOMAIN irqs
       THEN /\ irq_call' = IrqCall("disable_irq", irq_index, 0, <<>>,
                                   <<>>, "VfioDeviceSetIrq", 0)
            /\ installed' = installed
       ELSE IF irqs[irq_index].count = 0
       THEN /\ irq_call' = IrqCall("disable_irq", irq_index, 0, <<>>,
                                   <<>>, "VfioDeviceSetIrq", 0)
            /\ installed' = installed
       ELSE \E ret \in IoctlStatus :
            LET irq_set == vfio_irq_set({"DATA_NONE", "ACTION_TRIGGER"},
                                        irq_index, 0, 0, <<>>)
            IN  /\ irq_call' = IrqCall("disable_irq", irq_index, 0, <<>>,
                                       <<irq_set>>, irq_result(ret), 0)
                /\ installed' = IF ret < 0 THEN installed
                                ELSE set_irqs(installed, irq_set)

unmask_irq(irq_index) ==
    /\ irqs' = irqs
    /\ IF irq_index \notin DOMAIN irqs
       THEN /\ irq_call' = IrqCall("unmask_irq", irq_index, 0, <<>>,
                                   <<>>, "VfioDeviceSetIrq", 0)
            /\ installed' = installed
       ELSE IF irqs[irq_index].count = 0
       THEN /\ irq_call' = IrqCall("unmask_irq", irq_index, 0, <<>>,
                                   <<>>, "VfioDeviceSetIrq", 0)
            /\ installed' = installed
       ELSE \E ret \in IoctlStatus :
            LET irq_set == vfio_irq_set({"DATA_NONE", "ACTION_UNMASK"},
                                        irq_index, 0, 1, <<>>)
            IN  /\ irq_call' = IrqCall("unmask_irq", irq_index, 0, <<>>,
                                       <<irq_set>>, irq_result(ret), 0)
                /\ installed' = IF ret < 0 THEN installed
                                ELSE set_irqs(installed, irq_set)

\* The indexes max_interrupts looks at, in its order.
VFIO_PCI_INTX_IRQ_INDEX == 0
VFIO_PCI_MSI_IRQ_INDEX == 1
VFIO_PCI_MSIX_IRQ_INDEX == 2

\* Variant: the maximum is taken over every index of the map.
max_interrupts_every_index(irq_indexes, max) ==
    LET counts == {irqs[i].count : i \in DOMAIN irqs} \cup {max}
    IN  CHOOSE m \in counts : \A c \in counts : c <= m

\* The loop of max_interrupts over the indexes left, from the maximum so far.
RECURSIVE max_interrupts_loop(_, _)
max_interrupts_loop(irq_indexes, max) ==
    IF irq_indexes = <<>> THEN max
    ELSE LET index == Head(irq_indexes)
         IN  max_interrupts_loop(
                 Tail(irq_indexes),
                 IF index \in DOMAIN irqs /\ irqs[index].count > max
                   THEN irqs[index].count ELSE max)

max_interrupts ==
    /\ irqs' = irqs
    /\ installed' = installed
    /\ irq_call' = IrqCall("max_interrupts", 0, 0, <<>>, <<>>, "Ok",
                           max_interrupts_loop(<<VFIO_PCI_INTX_IRQ_INDEX,
                                                 VFIO_PCI_MSI_IRQ_INDEX,
                                                 VFIO_PCI_MSIX_IRQ_INDEX>>, 0))

\* A device after construction: any interrupt map, nothing installed yet.
InitIrq ==
    /\ InitLife
    /\ irqs \in IrqMaps
    /\ irq_call = NoIrqCall
    /\ installed = [i \in IrqIndexes |-> <<>>]
    /\ RegionIdle
    /\ CapIdle
    /\ GroupNewIdle
    /\ DmaIdle
    /\ DiscIdle
    /\ CtlIdle

NextIrq ==
    \/ \E irq_index \in IrqIndexes, vector \in 0..(MaxIrqCount + 1) :
        /\ trigger_irq(irq_index, vector)
        /\ UNCHANGED not_irq_vars
    \/ max_interrupts /\ UNCHANGED not_irq_vars

SpecIrq == InitIrq /\ [][NextIrq]_vars

\* The indexes and the eventfds the enable and disable operations are run on.
SetIrqIndexes == {VFIO_PCI_MSI_IRQ_INDEX, VFIO_PCI_MSIX_IRQ_INDEX}

EventFds == {11, 12}

EventFdLists == UNION { [1..n -> EventFds] : n \in 0..MaxIrqCount }

\* A device after construction with any interrupt map over these indexes;
\* nothing installed yet.
InitIrqSet ==
    /\ InitLife
    /\ irqs \in { m \in IrqMaps : DOMAIN m \subseteq SetIrqIndexes }
    /\ irq_call = NoIrqCall
    /\ installed = [i \in IrqIndexes |-> <<>>]
    /\ RegionIdle
    /\ CapIdle
    /\ GroupNewIdle
    /\ DmaIdle
    /\ DiscIdle
    /\ CtlIdle

NextIrqSet ==
    \/ \E irq_index \in SetIrqIndexes, event_fds \in EventFdLists :
        /\ enable_irq(irq_index, event_fds)
        /\ UNCHANGED not_irq_vars
    \/ \E irq_index \in SetIrqIndexes :
        /\ disable_irq(irq_index)
        /\ UNCHANGED not_irq_vars
    \/ \E irq_index \in SetIrqIndexes :
        /\ unmask_irq(irq_index)
        /\ UNCHANGED not_irq_vars

SpecIrqSet == InitIrqSet /\ [][NextIrqSet]_vars

-----------------------------------------------------------------------------
(* Region reads and writes of a constructed device.                        *)

\* u64 values, U64Bits wide.
U64 == 2 ^ U64Bits

\* a + b in u64 arithmetic: the wrapped sum, and whether it overflowed.
u64_add(a, b) == [sum |-> (a + b) % U64, overflow |-> a + b >= U64]

\* VfioRegion, without the capabilities no read or write looks at.
VfioRegion(fl, sz, off) == [flags |-> fl, size |-> sz, offset |-> off]

RegionOffsets == {0, U64 \div 2}

RegionSet ==
    { VfioRegion(fl, sz, off) : fl \in {{"READ"}, {"READ", "WRITE"}},
                                sz \in 0..MaxRegionSize,
                                off \in RegionOffsets }

RegionLists == UNION { [1..n -> RegionSet] : n \in 1..MaxRegions }

\* What a region operation leaves behind.
RegionCall(op, index, len, addr, tr, pn) ==
    [op |-> op, index |-> index, len |-> len, addr |-> addr,
     transfer |-> tr, panic |-> pn]

\* The positioned transfer of len bytes at region.offset + addr.
transfer_at(op, index, region, len, addr) ==
    LET pos == u64_add(region.offset, addr) IN
    IF pos.overflow /\ overflow_checks
    THEN RegionCall(op, index, len, addr, <<>>, TRUE)
    ELSE RegionCall(op, index, len, addr,
                    << [pos |-> pos.sum, len |-> len] >>, FALSE)

\* The bounds test shared by region_read and region_write:
\* size > region.size || addr + size > region.size, left to right.
\* refused: the call returns early; panic: the addition overflowed in a
\* build that checks it.
bounds_check(region, size, addr) ==
    LET end == u64_add(addr, size) IN
    IF size > region.size
    THEN [refused |-> TRUE, panic |-> FALSE]
    ELSE IF end.overflow /\ overflow_checks
    THEN [refused |-> FALSE, panic |-> TRUE]
    ELSE [refused |-> end.sum > region.size, panic |-> FALSE]

region_read(index, len, addr) ==
    /\ UNCHANGED <<regions, overflow_checks>>
    /\ IF index >= Len(regions)
       THEN region_call' = RegionCall("region_read", index, len, addr, <<>>, FALSE)
       ELSE LET region == regions[index + 1]
                chk == bounds_check(region, len, addr)
            IN  IF chk.panic
                THEN region_call' =
                         RegionCall("region_read", index, len, addr, <<>>, TRUE)
                ELSE IF chk.refused
                THEN region_call' =
                         RegionCall("region_read", index, len, addr, <<>>, FALSE)
                ELSE region_call' =
                         transfer_at("region_read", index, region, len, addr)

\* Variant: region_write does not look at the region's write flag.
region_write_any_flags(index, len, addr) ==
    /\ UNCHANGED <<regions, overflow_checks>>
    /\ IF index >= Len(regions)
       THEN region_call' = RegionCall("region_write", index, len, addr, <<>>, FALSE)
       ELSE LET stub == regions[index + 1]
                chk == bounds_check(stub, len, addr)
            IN  IF chk.panic
                THEN region_call' =
                         RegionCall("region_write", index, len, addr, <<>>, TRUE)
                ELSE IF chk.refused
                THEN region_call' =
                         RegionCall("region_write", index, len, addr, <<>>, FALSE)
                ELSE region_call' =
                         transfer_at("region_write", index, stub, len, addr)

region_write(index, len, addr) ==
    /\ UNCHANGED <<regions, overflow_checks>>
    /\ IF index >= Len(regions)
       THEN region_call' = RegionCall("region_write", index, len, addr, <<>>, FALSE)
       ELSE LET stub == regions[index + 1]
                chk == bounds_check(stub, len, addr)
            IN  IF chk.panic
                THEN region_call' =
                         RegionCall("region_write", index, len, addr, <<>>, TRUE)
                ELSE IF chk.refused \/ "WRITE" \notin stub.flags
                THEN region_call' =
                         RegionCall("region_write", index, len, addr, <<>>, FALSE)
                ELSE region_call' =
                         transfer_at("region_write", index, stub, len, addr)

InitRegion ==
    /\ InitLife
    /\ IrqIdle
    /\ CapIdle
    /\ GroupNewIdle
    /\ DmaIdle
    /\ DiscIdle
    /\ CtlIdle
    /\ regions \in RegionLists
    /\ overflow_checks \in BOOLEAN
    /\ region_call = NoRegionCall

RegionArgs == (0..MaxRegions) \X (0..MaxBufLen) \X (0..(U64 - 1))

NextRegion ==
    \/ \E a \in RegionArgs :
           region_read(a[1], a[2], a[3]) /\ UNCHANGED not_region_vars
    \/ \E a \in RegionArgs :
           region_write(a[1], a[2], a[3]) /\ UNCHANGED not_region_vars

SpecRegion == InitRegion /\ [][NextRegion]_vars

-----------------------------------------------------------------------------
(* VfioDeviceInfo::get_region_map: the walk of a region's capability chain. *)
(* Offsets and sizes are counted in units of one vfio_info_cap_header       *)
(* (8 bytes).                                                               *)

\* mem::size_of::<vfio_region_info>(), scaled down (it is 4 headers long).
region_info_size == 2

\* The capability identifiers the walk tells apart; "OTHER" is every
\* identifier the match has no arm for.
KnownCapIds == {"SPARSE_MMAP", "TYPE", "MSIX_MAPPABLE", "NVLINK2_SSATGT",
                "NVLINK2_LNKSPD"}

CapIds == KnownCapIds \cup {"OTHER"}

CapOffsets == 0..MaxArgsz

\* What the walk can read at one offset: the header's id and next, and the
\* nr_areas that follows the header of a sparse-mmap record.
CapCells ==
    { c \in [id : CapIds, next : CapOffsets, nr_areas : 0..MaxAreas] :
          c.id # "SPARSE_MMAP" => c.nr_areas = 0 }

\* The number of units the walk reads of the record whose header is cell:
\* the header alone, the 16-byte structure of a type, ssatgt or lnkspd
\* record, or the sparse-mmap structure with its nr_areas 16-byte areas.
cap_size(cell) ==
    CASE cell.id = "SPARSE_MMAP" -> 2 + 2 * cell.nr_areas
      [] cell.id \in {"TYPE", "NVLINK2_SSATGT", "NVLINK2_LNKSPD"} -> 2
      [] OTHER -> 1

\* The VfioRegionInfoCap pushed for a record (its payload values left out).
VfioRegionInfoCap(cell) == [id |-> cell.id, areas |-> cell.nr_areas]

\* Variant: the match has an arm that pushes a capability for every id.
caps_after_any_id(cs, cell) == Append(cs, VfioRegionInfoCap(cell))

\* region.caps after the match on cap_header.id.
caps_after(cs, cell) ==
    IF cell.id \in KnownCapIds THEN Append(cs, VfioRegionInfoCap(cell)) ELSE cs

\* Every buffer the kernel can return for a request of argsz units: the
\* cap_offset and the capability area after the fixed structure.
Replies(argsz) ==
    [cap_offset : CapOffsets,
     cap_info : [region_info_size..(argsz - 1) -> CapCells]]

\* The early return: no capability flag, or no room advertised.
get_region_map ==
    /\ cap_pc = "start"
    /\ cap_pc' = IF ~region_info.caps_flag \/ region_info.argsz <= region_info_size
                   THEN "done" ELSE "ioctl"
    /\ UNCHANGED <<region_info, region_with_cap, next_cap_offset, caps,
                   cap_visits, cap_oob>>

\* The second VFIO_DEVICE_GET_REGION_INFO, with a buffer of argsz units.
get_region_info_with_cap ==
    /\ cap_pc = "ioctl"
    /\ \E ret \in IoctlStatus :
         IF ret < 0
           THEN /\ cap_pc' = "error"
                /\ UNCHANGED region_with_cap
           ELSE /\ cap_pc' = "check"
                /\ region_with_cap' \in Replies(region_info.argsz)
    /\ UNCHANGED <<region_info, next_cap_offset, caps, cap_visits, cap_oob>>

\* if region_with_cap[0].region_info.cap_offset >= region_info_size
cap_walk_begin ==
    /\ cap_pc = "check"
    /\ IF region_with_cap.cap_offset >= region_info_size
         THEN /\ next_cap_offset' = region_with_cap.cap_offset
              /\ cap_pc' = "loop"
         ELSE /\ cap_pc' = "done"
              /\ UNCHANGED next_cap_offset
    /\ UNCHANGED <<region_info, region_with_cap, caps, cap_visits, cap_oob>>

\* The record at next_cap_offset lies inside the buffer: its header, and the
\* structure that the header's id makes the walk read.
record_inside(off) ==
    /\ off < region_info.argsz
    /\ off + cap_size(region_with_cap.cap_info[off]) <= region_info.argsz

\* One turn of `while next_cap_offset >= region_info_size`: the header is
\* read at next_cap_offset with no test against argsz, the record is decoded
\* by its id, and the walk moves to cap_header.next.  A read outside the
\* buffer is undefined behaviour: cap_oob records it, and "undefined" stands
\* for whatever follows (a fault, or a walk over what lies behind the
\* buffer).
cap_walk_step ==
    /\ cap_pc = "loop"
    /\ IF next_cap_offset < region_info_size
         THEN /\ cap_pc' = "done"
              /\ UNCHANGED <<next_cap_offset, caps, cap_visits, cap_oob>>
         ELSE /\ cap_visits < MaxVisits
              /\ cap_visits' = cap_visits + 1
              /\ IF record_inside(next_cap_offset)
                   THEN LET cap_header == region_with_cap.cap_info[next_cap_offset]
                        IN  /\ caps' = caps_after(caps, cap_header)
                            /\ next_cap_offset' = cap_header.next
                            /\ cap_pc' = "loop"
                            /\ UNCHANGED cap_oob
                   ELSE /\ cap_oob' = TRUE
                        /\ cap_pc' = "undefined"
                        /\ UNCHANGED <<next_cap_offset, caps>>
    /\ UNCHANGED <<region_info, region_with_cap>>

InitCaps ==
    /\ InitLife
    /\ IrqIdle
    /\ RegionIdle
    /\ GroupNewIdle
    /\ DmaIdle
    /\ DiscIdle
    /\ CtlIdle
    /\ region_info \in [argsz : region_info_size..MaxArgsz, caps_flag : BOOLEAN]
    /\ region_with_cap = [cap_offset |-> 0, cap_info |-> <<>>]
    /\ next_cap_offset = 0
    /\ caps = <<>>
    /\ cap_pc = "start"
    /\ cap_visits = 0
    /\ cap_oob = FALSE

NextCaps ==
    \/ get_region_map /\ UNCHANGED not_cap_vars
    \/ get_region_info_with_cap /\ UNCHANGED not_cap_vars
    \/ cap_walk_begin /\ UNCHANGED not_cap_vars
    \/ cap_walk_step /\ UNCHANGED not_cap_vars

SpecCaps == InitCaps /\ [][NextCaps]_vars

-----------------------------------------------------------------------------
(* VfioDeviceInfo::get_regions: the discovery of the regions of a device,  *)
(* and the use of the list it builds.                                      *)

\* The region indexes of the device: VFIO_PCI_BAR0_REGION_INDEX..num_regions.
KernelRegionIndexes == {0, 1}

num_regions == Cardinality(KernelRegionIndexes)

\* What the kernel reports for region i when the query succeeds: every
\* region has its own offset in the device file.
KernelRegion(i) == VfioRegion({"READ", "WRITE"}, 1, i)

\* The hinted sizes of the first reply: the fixed structure alone, or with
\* room for one or two units of capabilities.
DiscoverArgsz == region_info_size..(region_info_size + 2)

\* The VfioRegion get_regions builds from the first reply, with the
\* capabilities get_region_map decoded.
VfioRegionWithCaps(reg_info, cs) ==
    [flags |-> reg_info.flags, size |-> reg_info.size,
     offset |-> reg_info.offset, caps |-> cs]

\* No get_region_map is running (the variables of a call are local to it).
cap_locals_idle ==
    /\ region_info' = [argsz |-> 0, caps_flag |-> FALSE]
    /\ region_with_cap' = [cap_offset |-> 0, cap_info |-> <<>>]
    /\ next_cap_offset' = 0
    /\ caps' = <<>>
    /\ cap_pc' = "idle"
    /\ cap_visits' = 0
    /\ cap_oob' = FALSE

\* One turn of the loop of get_regions up to the call of get_region_map: the
\* first VFIO_DEVICE_GET_REGION_INFO for index i; when it fails the index is
\* logged and skipped.  After the last index get_regions returns the list.
get_regions ==
    /\ disc.pc = "query"
    /\ IF disc.i >= num_regions
         THEN /\ disc' = [disc EXCEPT !.pc = "done"]
              /\ UNCHANGED cap_vars
         ELSE \E ret \in IoctlStatus :
                IF ret < 0
                  THEN /\ disc' = [disc EXCEPT !.i = @ + 1,
                                               !.skipped = @ \cup {disc.i}]
                       /\ UNCHANGED cap_vars
                  ELSE /\ disc' = [disc EXCEPT !.pc = "map"]
                       /\ region_info' \in [argsz : DiscoverArgsz,
                                            caps_flag : BOOLEAN]
                       /\ region_with_cap' = [cap_offset |-> 0, cap_info |-> <<>>]
                       /\ next_cap_offset' = 0
                       /\ caps' = <<>>
                       /\ cap_pc' = "start"
                       /\ cap_visits' = 0
                       /\ cap_oob' = FALSE
    /\ UNCHANGED region_vars

\* The turn after get_region_map has returned: on Err the index is logged and
\* skipped, on Ok the region is pushed.
get_regions_push ==
    /\ disc.pc = "map"
    /\ cap_pc \in {"done", "error"}
    /\ IF cap_pc = "error"
         THEN /\ disc' = [disc EXCEPT !.pc = "query", !.i = @ + 1,
                                      !.skipped = @ \cup {disc.i}]
              /\ UNCHANGED regions
         ELSE /\ disc' = [disc EXCEPT !.pc = "query", !.i = @ + 1]
              /\ regions' = Append(regions,
                                   VfioRegionWithCaps(KernelRegion(disc.i), caps))
    /\ cap_locals_idle
    /\ UNCHANGED <<overflow_checks, region_call>>

\* get_region_flags, get_region_offset and get_region_size of the device.
get_region_flags(index) ==
    IF index < Len(regions) THEN regions[index + 1].flags ELSE {}

get_region_offset(index) ==
    IF index < Len(regions) THEN regions[index + 1].offset ELSE 0

get_region_size(index) ==
    IF index < Len(regions) THEN regions[index + 1].size ELSE 0

\* What the discovery of the regions leaves alone.
not_discover_vars ==
    <<life_vars, irq_vars, group_new_vars, dma_vars, ctl_vars>>

InitDiscover ==
    /\ InitLife
    /\ IrqIdle
    /\ GroupNewIdle
    /\ DmaIdle
    /\ CapIdle
    /\ regions = <<>>
    /\ overflow_checks \in BOOLEAN
    /\ region_call = NoRegionCall
    /\ disc = [pc |-> "query", i |-> 0, skipped |-> {}]
    /\ CtlIdle

\* The arguments the discovered regions are read and written with.
DiscoverArgs == KernelRegionIndexes \X {1} \X {0}

NextDiscover ==
    \/ get_regions /\ UNCHANGED not_discover_vars
    \/ disc.pc = "map" /\ get_region_map /\ UNCHANGED not_cap_vars
    \/ disc.pc = "map" /\ get_region_info_with_cap /\ UNCHANGED not_cap_vars
    \/ disc.pc = "map" /\ cap_walk_begin /\ UNCHANGED not_cap_vars
    \/ disc.pc = "map" /\ cap_walk_step /\ UNCHANGED not_cap_vars
    \/ get_regions_push
          /\ UNCHANGED not_discover_vars
    \/ \E a \in DiscoverArgs :
          /\ disc.pc = "done"
          /\ region_read(a[1], a[2], a[3])
          /\ UNCHANGED not_region_vars
    \/ \E a \in DiscoverArgs :
          /\ disc.pc = "done"
          /\ region_write(a[1], a[2], a[3])
          /\ UNCHANGED not_region_vars

SpecDiscover == InitDiscover /\ [][NextDiscover]_vars

-----------------------------------------------------------------------------
(* Every operation of a constructed device.  The call records keep the     *)
(* last operation only: an operation clears the records of the others.     *)

DeviceCall(op, index, value) == [op |-> op, index |-> index, value |-> value]

\* Variant: a reset that was asked for clears the reset flag of the device.
reset_clears_flag ==
    /\ IF "RESET" \in device_flags
         THEN \E ret \in IoctlStatus :
                /\ device_call' = DeviceCall("reset", 0, <<ret>>)
                /\ device_reset' = (device_reset \/ ret = 0)
         ELSE /\ device_call' = DeviceCall("reset", 0, <<>>)
              /\ UNCHANGED device_reset
    /\ device_flags' = device_flags \ {"RESET"}

\* reset: VFIO_DEVICE_RESET is requested when the device's flags have
\* VFIO_DEVICE_FLAGS_RESET; the status is not looked at.
reset ==
    /\ IF "RESET" \in device_flags
         THEN \E ret \in IoctlStatus :
                /\ device_call' = DeviceCall("reset", 0, <<ret>>)
                /\ device_reset' = (device_reset \/ ret = 0)
         ELSE /\ device_call' = DeviceCall("reset", 0, <<>>)
              /\ UNCHANGED device_reset
    /\ UNCHANGED device_flags

\* get_irq_info: self.irqs.get(&irq_index).
get_irq_info(irq_index) ==
    /\ device_call' = DeviceCall("get_irq_info", irq_index,
                                 IF irq_index \in DOMAIN irqs
                                   THEN <<irqs[irq_index]>> ELSE <<>>)
    /\ UNCHANGED <<device_flags, device_reset>>

\* get_region_flags, get_region_offset and get_region_size of one index.
region_accessors(index) ==
    /\ device_call' = DeviceCall("get_region", index,
                                 << [flags |-> get_region_flags(index),
                                     offset |-> get_region_offset(index),
                                     size |-> get_region_size(index)] >>)
    /\ UNCHANGED <<device_flags, device_reset>>

\* The container after one device of group 7 has been constructed.
DeviceConstructed ==
    /\ pc = [d \in Devices |-> IF d = "A" THEN "open" ELSE "idle"]
    /\ group = [d \in Devices |-> IF d = "A" THEN 1 ELSE 0]
    /\ dev_open = [d \in Devices |-> d = "A"]
    /\ groups = [g \in GroupIds |-> IF g = group_id("A") THEN 1 ELSE 0]
    /\ lock = "free"
    /\ strong = [o \in Objs |-> IF o = 1 THEN 2 ELSE 0]
    /\ id = [o \in Objs |-> IF o = 1 THEN group_id("A") ELSE 0]
    /\ bound = {1}
    /\ attached = {1}
    /\ iommu_set = TRUE
    /\ iommu_reqs = 1
    /\ kfail = FALSE
    /\ pre = NoPre
    /\ seen = [d \in Devices |-> 0]
    /\ fresh = [d \in Devices |-> 0]
    /\ logged = "none"

InitDevice ==
    /\ DeviceConstructed
    /\ irqs \in { m \in IrqMaps : DOMAIN m \subseteq {VFIO_PCI_MSI_IRQ_INDEX} }
    /\ irq_call = NoIrqCall
    /\ installed = [i \in IrqIndexes |-> <<>>]
    /\ regions \in { rl \in RegionLists :
                        /\ Len(rl) = 1
                        /\ rl[1].offset = 0
                        /\ rl[1].size = MaxRegionSize }
    /\ overflow_checks \in BOOLEAN
    /\ region_call = NoRegionCall
    /\ device_flags \in {{}, {"RESET"}}
    /\ device_call = NoDeviceCall
    /\ device_reset = FALSE
    /\ CapIdle
    /\ GroupNewIdle
    /\ DmaIdle
    /\ DiscIdle

\* The arguments the regions of the device are read and written with: a
\* valid and an invalid index, an empty and a one-byte buffer, the first and
\* the last offset.
DeviceRegionArgs == (0..1) \X (0..1) \X {0, U64 - 1}

\* What no operation of a constructed device has in its reach.
not_device_vars == <<cap_vars, group_new_vars, dma_vars, disc_vars>>

\* An interrupt operation was the last one.
AfterIrqOp ==
    /\ region_call' = NoRegionCall
    /\ device_call' = NoDeviceCall
    /\ UNCHANGED <<regions, overflow_checks, device_flags, device_reset>>
    /\ UNCHANGED <<life_vars, not_device_vars>>

\* A region operation was the last one.
AfterRegionOp ==
    /\ irq_call' = NoIrqCall
    /\ device_call' = NoDeviceCall
    /\ UNCHANGED <<irqs, installed, device_flags, device_reset>>
    /\ UNCHANGED <<life_vars, not_device_vars>>

\* A reset or an accessor was the last one.
AfterCtlOp ==
    /\ irq_call' = NoIrqCall
    /\ region_call' = NoRegionCall
    /\ UNCHANGED <<irqs, installed, regions, overflow_checks>>
    /\ UNCHANGED <<life_vars, not_device_vars>>

NextDevice ==
    \/ reset /\ AfterCtlOp
    \/ \E irq_index \in SetIrqIndexes : get_irq_info(irq_index) /\ AfterCtlOp
    \/ \E index \in 0..1 : region_accessors(index) /\ AfterCtlOp
    \/ \E irq_index \in SetIrqIndexes, vector \in 0..(MaxIrqCount + 1) :
          trigger_irq(irq_index, vector) /\ AfterIrqOp
    \/ \E irq_index \in SetIrqIndexes, event_fds \in EventFdLists :
          enable_irq(irq_index, event_fds) /\ AfterIrqOp
    \/ \E irq_index \in SetIrqIndexes : disable_irq(irq_index) /\ AfterIrqOp
    \/ \E irq_index \in SetIrqIndexes : unmask_irq(irq_index) /\ AfterIrqOp
    \/ max_interrupts /\ AfterIrqOp
    \/ \E a \in DeviceRegionArgs :
          region_read(a[1], a[2], a[3]) /\ AfterRegionOp
    \/ \E a \in DeviceRegionArgs :
          region_write(a[1], a[2], a[3]) /\ AfterRegionOp

SpecDevice == InitDevice /\ [][NextDevice]_vars

----------------------------------------------------------------------------
\* Vocabulary of the properties

\* The caller of VfioDevice::new has its group handle, or the device is built.
Holding(d) == pc[d] \in {"get_device", "open"}

\* Object o is an entry of the map gs.
InMap(gs, o) == \E g \in GroupIds : gs[g] = o

\* The map holds no group.
MapEmpty == \A g \in GroupIds : groups[g] = 0

\* The objects of S that are group g.
Of(S, g) == {o \in S : id[o] = g}

\* No device of group g is being opened, open or being dropped.
Unused(g) == \A d \in Devices : group_id(d) = g => pc[d] = "idle"

\* This step is an error return of get_group to the caller working on d.
GetGroupFails(d) ==
    /\ pc[d] \in {"group_new", "set_container", "set_iommu", "add_group"}
    /\ pc'[d] = "idle"

\* This step is the return of put_group to the caller dropping d.
PutGroupReturns(d) ==
    /\ pc[d] \in {"count", "del_group", "unset_container", "remove"}
    /\ pc'[d] = "drop_arg"

\* This step takes the entry of d's group out of the map.
EntryRemoved(d) == groups[group_id(d)] # 0 /\ groups'[group_id(d)] = 0

----------------------------------------------------------------------------
\* C1: callers of get_group with the same group id, however they interleave,
\* all hold the one object that is in the map for that id, and at no time are
\* two objects of one group attached to the hypervisor device (nor, while no
\* request has failed, bound to the container).
C1_OneGroupObject ==
    /\ \A d \in Devices :
         Holding(d) => group[d] # 0 /\ groups[group_id(d)] = group[d]
    /\ \A d, e \in Devices :
         Holding(d) /\ Holding(e) /\ group_id(d) = group_id(e)
            => group[d] = group[e]
    /\ \A g \in GroupIds : Cardinality(Of(attached, g)) <= 1
    /\ ~kfail => \A g \in GroupIds : Cardinality(Of(bound, g)) <= 1

\* Two callers are inside VfioDevice::new at once with the same object.
C1_Witness ==
    /\ pc["A"] = "get_device"
    /\ pc["B"] = "get_device"
    /\ group["A"] # 0
    /\ group["A"] = group["B"]
    /\ strong[group["A"]] = 3

\* C2 as stated: when put_group returns, it has removed the entry if and only
\* if the count it read was three.
C2_RemovesIffThree ==
    [][\A d \in Devices :
          PutGroupReturns(d) => (EntryRemoved(d) <=> seen'[d] = 3)]_vars

\* C2 amended: when put_group returns, it has removed the entry if and only if
\* the count it read was three and neither the hypervisor detach nor the
\* unbind failed (it logs the failure and returns with the entry in place).
C2_RemovesIffThreeAndReleased ==
    [][\A d \in Devices :
          PutGroupReturns(d)
             => (EntryRemoved(d) <=> (seen'[d] = 3 /\ logged' = "none"))]_vars

\* put_group has read a count of three and removed the entry.
C2_Witness ==
    \E d \in Devices :
        /\ pc[d] = "drop_arg"
        /\ seen[d] = 3
        /\ logged = "none"
        /\ groups[group_id(d)] = 0

\* C3: an error return of get_group leaves the bound groups, the IOMMU
\* selection, the attached groups and the map as they were when it was
\* called, with the lock released for a retry.
C3_FailureRestoresState ==
    [][\A d \in Devices :
          GetGroupFails(d)
             => /\ bound' = pre.bound
                /\ iommu_set' = pre.iommu_set
                /\ attached' = pre.attached
                /\ groups' = pre.groups
                /\ lock' = "free"]_vars

\* C4: with one caller and no failing request, devices of one group that are
\* open together hold the same object; the group of an open device is in the
\* map, bound and attached (so it outlives the drop of another device); and a
\* group none of whose devices is in use is not in the map, not bound and not
\* attached.
C4_SequentialLifecycle ==
    ~kfail =>
       /\ \A d, e \in Devices :
            pc[d] = "open" /\ pc[e] = "open" /\ group_id(d) = group_id(e)
               => group[d] = group[e]
       /\ \A d \in Devices :
            pc[d] = "open" => /\ groups[group_id(d)] = group[d]
                              /\ group[d] \in bound
                              /\ group[d] \in attached
       /\ \A g \in GroupIds :
            Unused(g) => /\ groups[g] = 0
                         /\ Of(bound, g) = {}
                         /\ Of(attached, g) = {}

\* A was dropped while B was open (its put_group read four holders), then B
\* was dropped (three holders) and the group is gone.
C4_Witness ==
    /\ ~kfail
    /\ pc["A"] = "idle" /\ seen["A"] = 4
    /\ pc["B"] = "idle" /\ seen["B"] = 3
    /\ groups[7] = 0
    /\ bound = {}
    /\ attached = {}

\* C5: with no failing request, once no device of a group is in use, the group
\* is out of the map, unbound and detached, however the drops interleaved.
C5_ConcurrentDropsRelease ==
    ~kfail =>
       \A g \in GroupIds :
          Unused(g) => /\ groups[g] = 0
                       /\ Of(bound, g) = {}
                       /\ Of(attached, g) = {}

\* The order of the attach steps, common to C6 as stated and as amended: a
\* group is bound before anything else, the IOMMU is selected by the caller
\* whose new group is bound and not yet attached, a group is attached when
\* bound (and the IOMMU selected if it is the first), and inserted when bound
\* and attached.
AttachOrder ==
    /\ \A o \in Objs :
         o \notin bound /\ o \in bound'
            => o \notin attached /\ ~InMap(groups, o)
    /\ iommu_reqs' # iommu_reqs
          => /\ lock \in Devices
             /\ group[lock] \in bound
             /\ group[lock] \notin attached
             /\ ~InMap(groups, group[lock])
    /\ \A o \in Objs :
         o \notin attached /\ o \in attached'
            => o \in bound /\ ~InMap(groups, o) /\ (MapEmpty => iommu_set)
    /\ \A o \in Objs :
         ~InMap(groups, o) /\ InMap(groups', o)
            => o \in bound /\ o \in attached

\* C6 as stated: the attach order, and a release that removes the entry first,
\* then detaches from the hypervisor device, then unbinds.
C6_ReleaseReversesAttach ==
    [][/\ AttachOrder
       /\ \A o \in Objs :
            /\ InMap(groups, o) /\ ~InMap(groups', o)
                  => o \in attached /\ o \in bound
            /\ o \in attached /\ o \notin attached'
                  => ~InMap(groups, o) /\ o \in bound
            /\ o \in bound /\ o \notin bound' /\ strong[o] >= 3
                  => ~InMap(groups, o) /\ o \notin attached]_vars

\* C6 amended: the attach order, and a release that detaches from the
\* hypervisor device first, then unbinds, and removes the entry last.
C6_ReleaseDetachUnbindRemove ==
    [][/\ AttachOrder
       /\ \A o \in Objs :
            /\ o \in attached /\ o \notin attached'
                  => InMap(groups, o) /\ o \in bound
            /\ o \in bound /\ o \notin bound' /\ strong[o] >= 3
                  => InMap(groups, o) /\ o \notin attached
            /\ InMap(groups, o) /\ ~InMap(groups', o)
                  => o \notin attached /\ o \notin bound]_vars

\* put_group is about to remove the entry of a group it has detached and
\* unbound, while another group stays in the map.
C6_Witness ==
    \E d \in Devices :
        /\ pc[d] = "remove"
        /\ groups[group_id(d)] = group[d]
        /\ group[d] \notin attached
        /\ group[d] \notin bound
        /\ \E g \in GroupIds : g # group_id(d) /\ groups[g] \in attached

\* C7: when VfioDevice::new fails in get_device after its get_group created
\* the group, and no other device has taken the group, the group is out of the
\* map, unbound and detached on return.
C7_FailedOpenRollsBack ==
    [][\A d \in Devices :
          /\ pc[d] = "get_device"
          /\ pc'[d] = "idle"
          /\ fresh[d] # 0
          /\ \A e \in Devices \ {d} : group[e] # fresh[d]
          => /\ groups'[group_id(d)] = 0
             /\ fresh[d] \notin bound'
             /\ fresh[d] \notin attached']_vars

\* C8 as stated: at most one IOMMU selection request in the life of the
\* container.
C8_IommuSelectedOnce == iommu_reqs <= 1

\* C8 amended: a selection request is issued only by a get_group whose new
\* group is bound while the map is empty, and every group reaches the attach
\* having issued one request in its get_group if the map is empty and none if
\* the map holds a group.
C8_IommuSelectedWhenMapEmpty ==
    [][/\ iommu_reqs' # iommu_reqs
             => /\ MapEmpty
                /\ iommu_reqs' = iommu_reqs + 1
                /\ lock \in Devices
                /\ group[lock] \in bound
       /\ \A o \in Objs :
            o \notin attached /\ o \in attached'
               => iommu_reqs = pre.iommu_reqs + (IF MapEmpty THEN 1 ELSE 0)]_vars

\* With no request failing, the selection has been requested a second time:
\* the map had drained and a group was attached again.
C8_Witness ==
    /\ ~kfail
    /\ iommu_reqs = 2
    /\ \E g \in GroupIds : groups[g] # 0 /\ groups[g] \in attached

\* C9: for an index in the interrupt map with count c and a vector v >= c
\* (v = c included), trigger_irq fails with the error and issues no
\* VFIO_DEVICE_SET_IRQS request.
C9_VectorFromCountRefused ==
    /\ irq_call.op = "trigger_irq"
    /\ irq_call.index \in DOMAIN irqs
    /\ irq_call.vector >= irqs[irq_call.index].count
    => /\ irq_call.result = "VfioDeviceSetIrq"
       /\ irq_call.request = <<>>

\* The call reached the bounds test of a region the operation may access: the
\* index is valid and, for a write, the region is writable.
RegionCallChecked ==
    /\ region_call.op \in {"region_read", "region_write"}
    /\ region_call.index < Len(regions)
    /\ region_call.op = "region_write"
          => "WRITE" \in regions[region_call.index + 1].flags

\* C10: for a valid index, any offset and any buffer length, region_read and
\* region_write (of a writable region) make no transfer when offset + length
\* is greater than the region's size, and make the transfer when it equals
\* the size.
C10_TransferOnlyInsideRegion ==
    RegionCallChecked =>
       LET size == regions[region_call.index + 1].size
           end  == region_call.addr + region_call.len
       IN  /\ end > size => region_call.transfer = <<>>
           /\ end = size => region_call.transfer # <<>>

\* C11: region_write of a region whose write flag is unset issues no write to
\* the device file, for every buffer length and offset.
C11_NoWriteWithoutWriteFlag ==
    /\ region_call.op = "region_write"
    /\ region_call.index < Len(regions)
    /\ "WRITE" \notin regions[region_call.index + 1].flags
    => region_call.transfer = <<>>

\* region_write was called on a region without the write flag with a buffer
\* and an offset that are inside the region.
C11_Witness ==
    /\ region_call.op = "region_write"
    /\ region_call.index < Len(regions)
    /\ "WRITE" \notin regions[region_call.index + 1].flags
    /\ region_call.len >= 1
    /\ region_call.addr + region_call.len <= regions[region_call.index + 1].size
    /\ region_call.transfer = <<>>
    /\ ~region_call.panic

\* C12: every byte the capability walk reads lies inside the reply buffer,
\* [0, argsz), whatever cap_offset, next and nr_areas the kernel supplied.
C12_WalkReadsInsideBuffer == ~cap_oob

\* C13: the capability walk ends after reading at most as many headers as
\* the buffer has capability entries, also when a next offset leads back to
\* an earlier entry.  (Stated for walks that stay inside the buffer, whose
\* capability area has argsz - region_info_size units, at least one per
\* entry.)
C13_WalkVisitsBounded ==
    ~cap_oob => cap_visits <= region_info.argsz - region_info_size

\* The offsets met when following next from off, until an offset below the
\* base structure size; the walk of an ill-formed chain is cut at the first
\* offset that is outside the buffer or was met before, which ends the list.
RECURSIVE ChainOffsets(_, _)
ChainOffsets(off, met) ==
    IF off < region_info_size THEN <<>>
    ELSE IF off >= region_info.argsz \/ off \in met THEN <<off>>
    ELSE <<off>> \o ChainOffsets(region_with_cap.cap_info[off].next,
                                 met \cup {off})

\* The reply's chain is well formed: no offset is met twice, and every record
\* of the chain lies inside the buffer.
WellFormedChain ==
    LET offs == ChainOffsets(region_with_cap.cap_offset, {})
    IN  /\ \A i, j \in 1..Len(offs) : offs[i] = offs[j] => i = j
        /\ \A i \in 1..Len(offs) :
             /\ offs[i] < region_info.argsz
             /\ LET c == region_with_cap.cap_info[offs[i]]
                    units == IF c.id = "SPARSE_MMAP" THEN 2 + 2 * c.nr_areas
                             ELSE IF c.id \in {"MSIX_MAPPABLE", "OTHER"} THEN 1
                             ELSE 2
                IN  offs[i] + units <= region_info.argsz

\* The records of the chain, in chain order, whose identifier is one of the
\* five known ones.
RECURSIVE ChainCaps(_)
ChainCaps(offs) ==
    IF offs = <<>> THEN <<>>
    ELSE LET c == region_with_cap.cap_info[Head(offs)]
         IN  (IF c.id \in {"SPARSE_MMAP", "TYPE", "MSIX_MAPPABLE",
                           "NVLINK2_SSATGT", "NVLINK2_LNKSPD"}
                THEN << [id |-> c.id, areas |-> c.nr_areas] >>
                ELSE <<>>) \o ChainCaps(Tail(offs))

\* C14: for a well-formed chain, get_region_map returns with region.caps
\* equal to the chain's records of known identifier, in chain order; a record
\* of another identifier adds no entry and its next is followed; a first
\* cap_offset below the base structure size gives the empty list.
C14_DecodedCapsAreChainRecords ==
    cap_pc = "done" /\ WellFormedChain
       => /\ caps = ChainCaps(ChainOffsets(region_with_cap.cap_offset, {}))
          /\ cap_visits = Len(ChainOffsets(region_with_cap.cap_offset, {}))

\* The walk of a chain of two records has ended: the first has an unknown
\* identifier and was skipped, the second was decoded.
C14_Witness ==
    /\ cap_pc = "done"
    /\ WellFormedChain
    /\ cap_visits = 2
    /\ Len(caps) = 1
    /\ region_with_cap.cap_info[region_with_cap.cap_offset].id = "OTHER"

\* C15: a successful disable_irq that follows at once a successful
\* enable_irq of the same index leaves no eventfd installed on any vector of
\* that index, and neither of the two calls changes what is installed on
\* another index.
C15_DisableAfterEnableClears ==
    [][/\ /\ irq_call'.op = "disable_irq"
          /\ irq_call'.result = "Ok"
          /\ irq_call'.follows = irq_call'.index
          => installed'[irq_call'.index] = <<>>
       /\ irq_call'.op \in {"enable_irq", "disable_irq"}
          => \A j \in IrqIndexes \ {irq_call'.index} :
                 installed'[j] = installed[j]]_vars

\* disable_irq has succeeded right after a successful enable_irq of the same
\* index with at least one eventfd, while the other index keeps its eventfds.
C15_Witness ==
    /\ irq_call.op = "disable_irq"
    /\ irq_call.result = "Ok"
    /\ irq_call.follows = irq_call.index
    /\ installed[irq_call.index] = <<>>
    /\ \E j \in SetIrqIndexes \ {irq_call.index} : Len(installed[j]) = MaxIrqCount

\* C16: enable_irq fails without a request when the index is absent, has no
\* vector, or has fewer vectors than eventfds given; otherwise it issues one
\* eventfd trigger request for the vectors [0, len) carrying the eventfds in
\* order, and when that request succeeds those vectors deliver to the given
\* eventfds whatever was installed before.
C16_EnableChecksThenInstalls ==
    [][irq_call'.op = "enable_irq" =>
         LET i == irq_call'.index
             fds == irq_call'.fds
         IN  IF \/ i \notin DOMAIN irqs
                \/ irqs[i].count = 0
                \/ irqs[i].count < Len(fds)
               THEN /\ irq_call'.result = "VfioDeviceSetIrq"
                    /\ irq_call'.request = <<>>
                    /\ installed' = installed
               ELSE /\ irq_call'.request =
                         << [flags |-> {"DATA_EVENTFD", "ACTION_TRIGGER"},
                             index |-> i, start |-> 0, count |-> Len(fds),
                             data |-> fds] >>
                    /\ irq_call'.result = "Ok"
                          => /\ Len(installed'[i]) >= Len(fds)
                             /\ \A v \in 1..Len(fds) : installed'[i][v] = fds[v]
                    /\ irq_call'.result # "Ok" => installed' = installed]_vars

\* enable_irq has succeeded with a full list of eventfds right after another
\* successful enable_irq of the same index: the earlier eventfds are replaced.
C16_Witness ==
    /\ irq_call.op = "enable_irq"
    /\ irq_call.result = "Ok"
    /\ irq_call.follows = irq_call.index
    /\ Len(irq_call.fds) = MaxIrqCount
    /\ installed[irq_call.index] = irq_call.fds

\* The three indexes max_interrupts is about that are in the map.
PciIrqsPresent ==
    {VFIO_PCI_INTX_IRQ_INDEX, VFIO_PCI_MSI_IRQ_INDEX, VFIO_PCI_MSIX_IRQ_INDEX}
        \cap DOMAIN irqs

\* C17: max_interrupts returns 0 when none of INTX, MSI and MSI-X is in the
\* map, and otherwise the largest count among those of the three that are in
\* the map, whatever other indexes the map has.
C17_MaxOverPresentPciIrqs ==
    irq_call.op = "max_interrupts" =>
       IF PciIrqsPresent = {}
         THEN irq_call.value = 0
         ELSE /\ \E i \in PciIrqsPresent : irq_call.value = irqs[i].count
              /\ \A i \in PciIrqsPresent : irqs[i].count <= irq_call.value

\* max_interrupts has returned the count of one of the three indexes although
\* another index of the map has more vectors.
C17_Witness ==
    /\ irq_call.op = "max_interrupts"
    /\ irq_call.value >= 1
    /\ PciIrqsPresent # {}
    /\ \E i \in DOMAIN irqs : irqs[i].count > irq_call.value

\* C18: VfioGroup::new succeeds whenever the status the kernel reports has
\* the viable bit set, whatever the other bits, and fails with the viability
\* error whenever the bit is clear.
C18_ViableBitDecides ==
    /\ group_new_call.result \notin {"none", "pending"}
    /\ group_new_call.opened
    /\ group_new_call.ret >= 0
    => IF (group_new_call.flags \div VFIO_GROUP_FLAGS_VIABLE) % 2 = 1
         THEN group_new_call.result = "Ok"
         ELSE group_new_call.result = "GroupViable"

\* C19: when put_group, having read three holders, fails to detach the group
\* from the hypervisor device or to unbind it, it logs the failure and
\* returns to the dropping caller with the lock released and the map as it
\* was; and an entry leaves the map only when its group has been detached and
\* unbound.
C19_FailedReleaseKeepsEntry ==
    [][\A d \in Devices :
          /\ /\ pc[d] \in {"del_group", "unset_container"}
             /\ logged' # "none"
             => /\ seen[d] = 3
                /\ pc'[d] = "drop_arg"
                /\ lock' = "free"
                /\ groups' = groups
                /\ groups[group_id(d)] = group[d]
          /\ EntryRemoved(d)
             => /\ logged = "none"
                /\ groups[group_id(d)] \notin attached
                /\ groups[group_id(d)] \notin bound]_vars

\* put_group has returned after a failed unbind: the failure is logged, the
\* caller goes on with its drop, and the entry is still in the map.
C19_Witness ==
    \E d \in Devices :
        /\ pc[d] = "drop_arg"
        /\ seen[d] = 3
        /\ logged = "Could not unbind VFIO group"
        /\ lock = "free"
        /\ groups[group_id(d)] = group[d]

DmaErrors == {"IommuDmaMap", "IommuDmaUnmap"}

\* The regions a call has got to are the first ones of the memory, in order,
\* the last of them being the one that failed if the call failed; the regions
\* before the one the call is at have their translations installed by a map
\* and removed by an unmap.
DmaInSequenceOrder ==
    /\ \A j \in 1..Len(dma.attempted) : dma.attempted[j] = j
    /\ dma.result = "running" => Len(dma.attempted) = dma.i - 1
    /\ dma.result = "Ok" => Len(dma.attempted) = Len(guest_mem)
    /\ dma.result \in DmaErrors
          => /\ Len(dma.attempted) = dma.i
             /\ dma.i <= Len(guest_mem)
             /\ dma.result = IF dma.op = "map" THEN "IommuDmaMap"
                                               ELSE "IommuDmaUnmap"
    /\ dma.op = "map"
          => \A j \in 1..(dma.i - 1) : translation(j) \in translations
    /\ dma.op = "unmap"
          => \A j \in 1..(dma.i - 1) : translation(j) \notin translations

\* The step at which a call fails leaves the translations of the other
\* regions alone, and a call that has failed does nothing more.
DmaStopsAtFirstFailure ==
    /\ dma.result = "running" /\ dma'.result \in DmaErrors
          => /\ translations' \ {translation(dma.i)}
                   = translations \ {translation(dma.i)}
             /\ dma.op = "map" => translations' = translations
    /\ dma.result \in DmaErrors
          => /\ translations' = translations
             /\ \/ dma' = dma
                \/ dma'.result = "running" /\ dma'.attempted = <<>>

\* C20: vfio_map_guest_memory and vfio_unmap_guest_memory take the guest
\* memory regions in sequence order and stop at the first region whose map
\* or unmap fails: that error is the result, no later region is attempted,
\* and the translations installed or removed for the preceding regions stay
\* as they are.
C20_StopAtFirstFailureNoRollback ==
    []DmaInSequenceOrder /\ [][DmaStopsAtFirstFailure]_vars

\* A map of three regions has failed at the second: the first is mapped, the
\* third was never attempted.
C20_Witness ==
    /\ dma.op = "map"
    /\ dma.result = "IommuDmaMap"
    /\ Len(guest_mem) = 3
    /\ guest_mem[2].host_ok
    /\ dma.attempted = <<1, 2>>
    /\ translation(1) \in translations
    /\ translation(3) \notin translations

\* C21: vfio_dma_unmap succeeds only when the kernel returned status zero and
\* wrote back the requested size; a zero status with any other size is
\* IommuDmaUnmap, as is a nonzero status.
C21_UnmapNeedsStatusAndSize ==
    dma.op = "unmap" /\ dma.request # <<>>
        => LET q == dma.request[1]
           IN  IF q.ret = 0 /\ q.unmapped = q.size
                 THEN dma.result = "running"
                 ELSE dma.result = "IommuDmaUnmap"

\* The kernel returned zero and reported a different size: the unmap failed.
C21_Witness ==
    /\ dma.op = "unmap"
    /\ dma.request # <<>>
    /\ dma.request[1].ret = 0
    /\ dma.request[1].unmapped # dma.request[1].size
    /\ dma.result = "IommuDmaUnmap"

\* Device d is constructed and its drop has not begun.
InUse(d) == pc[d] = "open"

\* C22: while every detach and unbind succeeds, under any interleaving of
\* opens and drops the group of a constructed device whose drop has not
\* begun is in the map, bound to the container and attached to the
\* hypervisor device.
C22_GroupInUseStaysAttached ==
    \A d \in Devices :
        InUse(d) => /\ groups[group_id(d)] = group[d]
                    /\ group[d] \in bound
                    /\ group[d] \in attached

\* The drop of A has been through put_group, which read four holders, while
\* B of the same group is in use.
C22_Witness ==
    /\ pc["A"] = "drop_group"
    /\ seen["A"] = 4
    /\ InUse("B")
    /\ groups[group_id("B")] = group["B"]
    /\ group["B"] \in bound \cap attached

\* C23: whenever the groups mutex is free, every group in the map is bound
\* to the container and attached to the hypervisor device, whatever requests
\* failed before; so the handle get_group clones from an existing entry is
\* that of a fully attached group.
C23_MapEntriesFullyAttached ==
    lock = "free"
        => \A g \in GroupIds :
              groups[g] # 0 => /\ groups[g] \in bound
                               /\ groups[g] \in attached

\* C25: region_read and region_write transfer only at file positions inside
\* [region.offset, region.offset + region.size); when offset + len(buffer)
\* is more than the largest u64 the sum does not wrap into the bounds, and no
\* transfer is issued.
C25_NoTransferWhenSumWraps ==
    region_call.transfer # <<>> =>
        LET region == regions[region_call.index + 1]
            t == region_call.transfer[1]
        IN  /\ region_call.addr + region_call.len < U64
            /\ region.offset <= t.pos
            /\ t.pos + t.len <= region.offset + region.size

\* The caller working on d is inside put_group or about to call it.
InPutGroup(d) ==
    pc[d] \in {"clone", "put_group", "count", "del_group", "unset_container",
               "remove", "drop_arg"}

\* The group objects this step detaches from the hypervisor device or
\* unbinds from the container.
Released == (attached \ attached') \cup (bound \ bound')

\* C26: the drop of a device closes the device file before it calls
\* put_group, and a group is detached from the hypervisor device and unbound
\* from the container only when no device of the group has its file open.
C26_FileClosedBeforeRelease ==
    /\ [](\A d \in Devices : InPutGroup(d) => ~dev_open[d])
    /\ [][\A o \in Released :
             \A e \in Devices : dev_open[e] => group[e] # o]_vars

\* put_group has detached the group of the last device, whose file is closed,
\* and is about to unbind it.
C26_Witness ==
    \E d \in Devices :
        /\ pc[d] = "unset_container"
        /\ seen[d] = 3
        /\ ~dev_open[d]
        /\ group[d] \notin attached
        /\ \A e \in Devices : ~dev_open[e]

\* C24: after a discovery that skipped the index of a failed query, every
\* other kernel index i is addressed as index i: the accessors return the
\* size, the offset and the flags the kernel reported for region i, and a
\* read or write of index i transfers at that region's offset.
C24_SkippedQueryKeepsIndexes ==
    disc.pc = "done" /\ disc.skipped # {}
        => \A i \in KernelRegionIndexes \ disc.skipped :
              /\ get_region_size(i) = KernelRegion(i).size
              /\ get_region_offset(i) = KernelRegion(i).offset
              /\ get_region_flags(i) = KernelRegion(i).flags
              /\ region_call.op # "none" /\ region_call.index = i
                    => region_call.transfer =
                          << [pos |-> KernelRegion(i).offset + region_call.addr,
                              len |-> region_call.len] >>

\* get_region_map goes from its test to the second query exactly when the
\* first reply has the capability flag and hints at more than the fixed
\* structure, and the buffer of the second query has the hinted size.
RequeriedIffHinted ==
    /\ cap_pc = "start" /\ cap_pc' # "start"
          => (cap_pc' = "ioctl"
                 <=> /\ region_info.caps_flag
                     /\ region_info.argsz > region_info_size)
    /\ cap_pc = "ioctl" /\ cap_pc' = "check"
          => DOMAIN region_with_cap'.cap_info
                = region_info_size..(region_info.argsz - 1)

\* Every capability that is pushed is the record of the second reply at the
\* offset the walk is at.
PushedFromSecondReply ==
    caps' # caps /\ caps' # <<>>
        => /\ cap_pc = "loop"
           /\ next_cap_offset \in DOMAIN region_with_cap.cap_info
           /\ caps' = caps_after(caps, region_with_cap.cap_info[next_cap_offset])

\* A region whose second query failed is not pushed.
FailedRequeryOmitted ==
    cap_pc = "error" /\ disc' # disc
        => /\ regions' = regions
           /\ disc.i \in disc'.skipped

\* Every record the walk reads lies in the second reply.
WalkReadsSecondReply ==
    cap_pc = "loop" /\ cap_visits' > cap_visits
        => record_inside(next_cap_offset)

\* What C28 says of the second query alone.
RequeryDiscipline ==
    [][RequeriedIffHinted /\ PushedFromSecondReply /\ FailedRequeryOmitted]_vars

\* C28: during discovery the region-info query is issued again, with a
\* buffer of the hinted size, if and only if the first reply has the
\* capability flag and a hinted size above the fixed structure; the chain is
\* decoded from that second reply only; a region whose second query fails is
\* left out of the list.
C28_RequeryAndDecodeSecondReply ==
    [][/\ RequeriedIffHinted
       /\ PushedFromSecondReply
       /\ WalkReadsSecondReply
       /\ FailedRequeryOmitted]_vars

\* C27: no operation of a constructed device, whether it succeeds or fails,
\* changes the device's flags, its region list or its interrupt map, or the
\* group map of the container.
C27_DeviceOperationsKeepDevice ==
    [][/\ device_flags' = device_flags
       /\ regions' = regions
       /\ irqs' = irqs
       /\ groups' = groups]_vars

\* The device has been reset and has eventfds installed, and a region
\* operation has made a transfer: the kernel side changed, the device and
\* the map are those of the construction.
C27_Witness ==
    /\ device_reset
    /\ installed[VFIO_PCI_MSI_IRQ_INDEX] # <<>>
    /\ region_call.transfer # <<>>
    /\ "RESET" \in device_flags
    /\ groups[group_id("A")] = group["A"]

\* The state SpecDevice starts from is one the lifecycle reaches.
DeviceConstructedReached == DeviceConstructed

====
